---- MODULE Spec2Model ----
(***************************************************************************)
(* BMS dashboard (src/app/bms_dashboard/page.tsx): the React component     *)
(* BMSDashboard as a state machine.  The state is the component's useState *)
(* cells, the asynchronous fetches that are in flight (each with its       *)
(* position between two awaits and its local variables), the externally    *)
(* owned datastore and the change notifications it has sent.               *)
(***************************************************************************)
EXTENDS Integers, Sequences, FiniteSets

VARIABLES
    mounted,          \* the mount effect of the component has run
    timeFrame,        \* useState<TimeFrame>
    metrics,          \* useState<MetricData>
    loading,          \* useState(true)
    metricsFetches,   \* fetchMetrics calls in flight, in the order they started
    db,               \* the datastore: tables psid, intent, purchase
    notifications,    \* number of postgres_changes events not yet handled
    trendFetches,     \* fetchTrendAnalysisData calls in flight
    trendData,        \* useState<TrendData[]>
    historicalFetches, \* fetchHistoricalData calls in flight
    chartData,        \* useState<ChartData[]>: the pie chart's entries
    chartLoading,     \* useState(true)
    last,             \* history: the fetchMetrics call that finished last
    lastChart,        \* history: the fetchHistoricalData call that finished last
    numerator,        \* calculatePercentage: argument
    denominator,      \* calculatePercentage: argument
    percentage        \* calculatePercentage: result, <<>> before the call

vars == <<mounted, timeFrame, metrics, loading, metricsFetches, db,
          notifications, trendFetches, trendData, historicalFetches,
          chartData, chartLoading, last, lastChart,
          numerator, denominator, percentage>>

(***************************************************************************)
(* Bounds of the model.                                                    *)
(***************************************************************************)
MaxInFlight == 2      \* fetchMetrics (fetchHistoricalData) calls in flight
MaxTrends == 2        \* fetchTrendAnalysisData calls in flight or due
MaxArg == 41          \* arguments of calculatePercentage range over 0..MaxArg

(***************************************************************************)
(* Types of the component.                                                 *)
(***************************************************************************)
TimeFrames == {"today", "7days", "30days"}

CountColumns == {"today_count", "weekly_count", "monthly_count"}

ZeroMetrics ==
    [totalChat |-> 0, totalLead |-> 0, totalBuy |-> 0, totalBuyValue |-> 0,
     totalGoodCustomer |-> 0, totalViewContent |-> 0, totalAddToCart |-> 0,
     totalInitiateCheckout |-> 0, totalBadCustomer |-> 0, totalSpam |-> 0,
     totalBlocking |-> 0, totalBan |-> 0]

(***************************************************************************)
(* The answer of a query: { data, error }.  Only data is read by           *)
(* fetchMetrics; data is null when the query reports an error.             *)
(***************************************************************************)
Null == [isNull |-> TRUE, val |-> <<>>]

Some(v) == [isNull |-> FALSE, val |-> v]

(***************************************************************************)
(* Rows of the datastore.  A row is a function from column names to        *)
(* values; a column that is NULL in the datastore is absent from the row.  *)
(***************************************************************************)
PsidRow(a, b, c) ==
    [metric_type |-> "PSID Inputs", today_count |-> a, weekly_count |-> b,
     monthly_count |-> c]

IntentRow(t, a, b, c) ==
    [intent_type |-> t, today_count |-> a, weekly_count |-> b,
     monthly_count |-> c]

WithoutColumn(row, col) == [k \in DOMAIN row \ {col} |-> row[k]]

\* .select(columns): the row restricted to the columns asked for
SelectColumns(row, cols) == [k \in DOMAIN row \cap cols |-> row[k]]

SelectRows(rows, cols) == [i \in 1..Len(rows) |-> SelectColumns(rows[i], cols)]

\* row[col] || 0
ValueOrZero(row, col) == IF col \in DOMAIN row THEN row[col] ELSE 0

RECURSIVE FilterRows(_, _, _)
FilterRows(rows, col, values) ==
    IF rows = <<>> THEN <<>>
    ELSE LET rest == FilterRows(Tail(rows), col, values)
         IN  IF col \in DOMAIN Head(rows) /\ Head(rows)[col] \in values
             THEN <<Head(rows)>> \o rest
             ELSE rest

\* .single(): exactly one row, else an error and no data
Single(rows) == IF Len(rows) = 1 THEN Some(rows[1]) ELSE Null

(***************************************************************************)
(* The datastore.  Its tables are owned by an external system; the model   *)
(* draws the contents of each table from a catalogue and the state db      *)
(* names, for each table, the entry of the catalogue it currently holds.   *)
(* The entries hold every label the aggregation switches on, labels it     *)
(* does not, several rows of one label, counters that differ from column   *)
(* to column and NULL columns.                                             *)
(***************************************************************************)
Catalogue ==
    [psid |->
        [a |-> <<PsidRow(5, 7, 9),
                 [metric_type |-> "Other", today_count |-> 1,
                  weekly_count |-> 1, monthly_count |-> 1]>>,
         b |-> <<WithoutColumn(PsidRow(2, 3, 0), "weekly_count")>>],
     intent |->
        [a |-> <<IntentRow("Lead", 1, 2, 3), IntentRow("Purchase", 1, 1, 2),
                 IntentRow("VC", 4, 5, 6), IntentRow("ATC", 2, 3, 4),
                 IntentRow("IC", 1, 2, 3), IntentRow("Move to Spam", 1, 2, 4),
                 IntentRow("Blocking", 0, 1, 2), IntentRow("Ban", 1, 3, 5),
                 IntentRow("Lead", 2, 3, 4), IntentRow("Purchase", 3, 1, 1)>>,
         b |-> <<IntentRow("Lead", 3, 4, 6), IntentRow("Purchase", 2, 3, 5),
                 IntentRow("ViewContent", 3, 4, 5),
                 IntentRow("AddToCart", 1, 2, 3),
                 IntentRow("InitiateCheckout", 2, 2, 3),
                 IntentRow("Spam", 1, 5, 6),
                 WithoutColumn(IntentRow("Ban", 2, 0, 4), "weekly_count"),
                 IntentRow("Blocking", 1, 1, 3)>>],
     purchase |->
        [a |-> <<[value |-> 100], [value |-> 250], [id |-> 3]>>,
         b |-> <<[value |-> 40]>>]]

Tables == DOMAIN Catalogue

TablesOf(table) == DOMAIN Catalogue[table]

Datastores == [psid : TablesOf("psid"), intent : TablesOf("intent"),
               purchase : TablesOf("purchase")]

\* the rows table holds in datastore d
Rows(d, table) == Catalogue[table][d[table]]

(***************************************************************************)
(* fetchMetrics: the synchronous parts between its awaits.                 *)
(***************************************************************************)
\* not the code's: the columns of '7days' and '30days' exchanged
CountColumnExchanged(tf) ==
    IF tf = "today" THEN "today_count"
    ELSE IF tf = "7days" THEN "monthly_count"
    ELSE "weekly_count"

\* const countColumn = timeFrame === 'today' ? ... : ...
CountColumn(tf) ==
    IF tf = "today" THEN "today_count"
    ELSE IF tf = "7days" THEN "weekly_count"
    ELSE "monthly_count"

\* the locals of fetchMetrics after "let totalLead = 0 ..."
ZeroTotals ==
    [totalLead |-> 0, totalBuy |-> 0, totalViewContent |-> 0,
     totalAddToCart |-> 0, totalInitiateCheckout |-> 0, totalSpam |-> 0,
     totalBlocking |-> 0, totalBan |-> 0]

\* not the code's here: total = count, as fetchHistoricalData has it
AssignCount(total, count) == count

\* total += count
AddCount(total, count) == total + count

\* the body of intentData.forEach: the switch on item.intent_type
ProcessIntent(t, item, countColumn) ==
    LET count == ValueOrZero(item, countColumn)
        type == IF "intent_type" \in DOMAIN item THEN item["intent_type"] ELSE ""
    IN  CASE type = "Lead" ->
               [t EXCEPT !.totalLead = AddCount(@, count)]
          [] type = "Purchase" ->
               [t EXCEPT !.totalBuy = AddCount(@, count)]
          [] type = "VC" ->
               [t EXCEPT !.totalViewContent = AddCount(@, count)]
          [] type = "ATC" ->
               [t EXCEPT !.totalAddToCart = AddCount(@, count)]
          [] type = "IC" ->
               [t EXCEPT !.totalInitiateCheckout = AddCount(@, count)]
          [] type = "Move to Spam" ->
               [t EXCEPT !.totalSpam = AddCount(@, count)]
          [] type = "Blocking" ->
               [t EXCEPT !.totalBlocking = AddCount(@, count)]
          [] type = "Ban" ->
               [t EXCEPT !.totalBan = AddCount(@, count)]
          [] OTHER -> t

RECURSIVE ForEachIntent(_, _, _)
ForEachIntent(t, items, countColumn) ==
    IF items = <<>> THEN t
    ELSE ForEachIntent(ProcessIntent(t, Head(items), countColumn),
                       Tail(items), countColumn)

\* if (intentData) { intentData.forEach(...) }
ProcessIntentStatistics(intentData, countColumn) ==
    IF intentData.isNull THEN ZeroTotals
    ELSE ForEachIntent(ZeroTotals, intentData.val, countColumn)

\* psidData?.[countColumn] || 0
TotalChat(psidData, countColumn) ==
    IF psidData.isNull THEN 0 ELSE ValueOrZero(psidData.val, countColumn)

\* not the code's: totalViewContent left out of the sum
GoodCustomerWithoutViewContent(t) ==
    t.totalAddToCart + t.totalInitiateCheckout + t.totalLead + t.totalBuy

\* const totalGoodCustomer = ...
TotalGoodCustomer(t) ==
    t.totalAddToCart + t.totalInitiateCheckout + t.totalLead + t.totalBuy
        + t.totalViewContent

\* not the code's: totalSpam left out of the sum
BadCustomerWithoutSpam(t) == t.totalBan + t.totalBlocking

\* const totalBadCustomer = ...
TotalBadCustomer(t) == t.totalBan + t.totalBlocking + t.totalSpam

\* not the code's: a record without a value resets the sum
AddValueOrReset(sum, item) ==
    IF "value" \in DOMAIN item THEN sum + item["value"] ELSE 0

\* sum + (item.value || 0)
AddValue(sum, item) == sum + ValueOrZero(item, "value")

RECURSIVE ReduceValues(_, _)
ReduceValues(sum, items) ==
    IF items = <<>> THEN sum
    ELSE ReduceValues(AddValue(sum, Head(items)), Tail(items))

\* purchaseData?.reduce((sum, item) => sum + (item.value || 0), 0) || 0
TotalBuyValue(purchaseData) ==
    IF purchaseData.isNull THEN 0 ELSE ReduceValues(0, purchaseData.val)

\* the object handed to setMetrics
ComputeMetrics(psidData, intentData, purchaseData, countColumn) ==
    LET t == ProcessIntentStatistics(intentData, countColumn)
    IN  [totalChat |-> TotalChat(psidData, countColumn),
         totalLead |-> t.totalLead,
         totalBuy |-> t.totalBuy,
         totalBuyValue |-> TotalBuyValue(purchaseData),
         totalGoodCustomer |-> TotalGoodCustomer(t),
         totalViewContent |-> t.totalViewContent,
         totalAddToCart |-> t.totalAddToCart,
         totalInitiateCheckout |-> t.totalInitiateCheckout,
         totalBadCustomer |-> TotalBadCustomer(t),
         totalSpam |-> t.totalSpam,
         totalBlocking |-> t.totalBlocking,
         totalBan |-> t.totalBan]

\* what the three queries of fetchMetrics answer from the datastore d
QueryPsid(d, countColumn) ==
    LET r == Single(FilterRows(Rows(d, "psid"), "metric_type", {"PSID Inputs"}))
    IN  IF r.isNull THEN Null ELSE Some(SelectColumns(r.val, {countColumn}))

QueryIntent(d, countColumn) ==
    Some(SelectRows(Rows(d, "intent"), {"intent_type", countColumn}))

QueryPurchase(d) == Some(SelectRows(Rows(d, "purchase"), {"value"}))

(***************************************************************************)
(* Numbers.  The operands of calculatePercentage are IEEE 754 doubles:     *)
(* numerator / denominator is rounded to a 53-bit significand (to nearest, *)
(* ties to even), and so is the product with 100.  A double is modelled    *)
(* exactly, as its significand's bits (most significant first, no leading  *)
(* zero; <<>> is zero) and the exponent of the last bit:                   *)
(*     value = (bits read as a binary numeral) * 2^exp.                    *)
(***************************************************************************)
Precision == 53

RECURSIVE Pow2(_)
Pow2(k) == IF k = 0 THEN 1 ELSE 2 * Pow2(k - 1)

RECURSIVE IntBits(_)
IntBits(n) == IF n = 0 THEN <<>> ELSE Append(IntBits(n \div 2), n % 2)

RECURSIVE BitsInt(_)
BitsInt(bits) ==
    IF bits = <<>> THEN 0
    ELSE 2 * BitsInt(SubSeq(bits, 1, Len(bits) - 1)) + bits[Len(bits)]

\* acc followed by the next k bits of the binary expansion of r / d (r < d),
\* and what is left of r
RECURSIVE FracBits(_, _, _, _)
FracBits(r, d, k, acc) ==
    IF k = 0 THEN [bits |-> acc, rem |-> r]
    ELSE IF 2 * r >= d THEN FracBits(2 * r - d, d, k - 1, Append(acc, 1))
    ELSE FracBits(2 * r, d, k - 1, Append(acc, 0))

\* bits + 1, carried from the last bit
RECURSIVE Increment(_)
Increment(bits) ==
    IF bits = <<>> THEN <<1>>
    ELSE IF bits[Len(bits)] = 0
         THEN Append(SubSeq(bits, 1, Len(bits) - 1), 1)
         ELSE Append(Increment(SubSeq(bits, 1, Len(bits) - 1)), 0)

\* round to nearest, ties to even: bits * 2^exp (and, with sticky, a little
\* more than that) to at most Precision bits
RoundToDouble(bits, exp, sticky) ==
    IF Len(bits) <= Precision THEN [bits |-> bits, exp |-> exp]
    ELSE LET top == SubSeq(bits, 1, Precision)
             dropped == SubSeq(bits, Precision + 1, Len(bits))
             more == sticky \/ \E i \in 2..Len(dropped) : dropped[i] = 1
             up == dropped[1] = 1 /\ (more \/ top[Precision] = 1)
             e == exp + Len(dropped)
             inc == Increment(top)
         IN  IF ~up THEN [bits |-> top, exp |-> e]
             ELSE IF Len(inc) > Precision
                  THEN [bits |-> SubSeq(inc, 1, Precision), exp |-> e + 1]
                  ELSE [bits |-> inc, exp |-> e]

\* the least z with n * 2^z >= d
RECURSIVE Shift(_, _)
Shift(n, d) == IF n >= d THEN 0 ELSE 1 + Shift(2 * n, d)

\* numerator / denominator, for integers n >= 0 and d > 0
Divide(n, d) ==
    IF n = 0 THEN [bits |-> <<>>, exp |-> 0]
    ELSE LET z == Shift(n, d)
             m == n * Pow2(z)
             int == IntBits(m \div d)
             k == Precision + 1 - Len(int)
             frac == FracBits(m % d, d, k, int)
         IN  RoundToDouble(frac.bits, 0 - k - z, frac.rem # 0)

\* bits * k + carry, for a small integer k
RECURSIVE MultiplyBits(_, _, _)
MultiplyBits(bits, k, carry) ==
    IF bits = <<>> THEN IntBits(carry)
    ELSE LET v == bits[Len(bits)] * k + carry
             front == SubSeq(bits, 1, Len(bits) - 1)
         IN  IF v % 2 = 1 THEN Append(MultiplyBits(front, k, v \div 2), 1)
             ELSE Append(MultiplyBits(front, k, v \div 2), 0)

\* x * k, for a double x >= 0 and a small integer k
Multiply(x, k) == RoundToDouble(MultiplyBits(x.bits, k, 0), x.exp, FALSE)

\* Math.round(x), for a double x >= 0: floor(x + 1/2)
MathRound(x) ==
    LET len == Len(x.bits)
        int == len + x.exp      \* the number of bits before the binary point
    IN  IF x.exp >= 0 THEN BitsInt(x.bits) * Pow2(x.exp)
        ELSE IF int < 0 THEN 0
        ELSE BitsInt(SubSeq(x.bits, 1, int)) + x.bits[int + 1]

\* const calculatePercentage = (numerator, denominator) => ...
calculatePercentage(n, d) ==
    IF d = 0 THEN 0 ELSE MathRound(Multiply(Divide(n, d), 100))

\* x.toFixed(1), for a double x >= 0: the decimal numeral with one digit after
\* the point that is nearest to x (the greater of two equally near), as its
\* digits before the point (whole) and its digit after it (tenth)
ToFixed1(x) ==
    LET n == MathRound([bits |-> MultiplyBits(x.bits, 10, 0), exp |-> x.exp])
    IN  [whole |-> n \div 10, tenth |-> n % 10]

(***************************************************************************)
(* fetchHistoricalData: the synchronous parts between its awaits.          *)
(***************************************************************************)
\* .in('intent_type', ['Lead', 'Purchase'])
QueryLeadPurchase(d, countColumn) ==
    Some(SelectRows(FilterRows(Rows(d, "intent"), "intent_type",
                               {"Lead", "Purchase"}),
                    {"intent_type", countColumn}))

\* the body of intentData.forEach: totalLead = count, totalBuy = count
ChartIntent(t, item, countColumn) ==
    LET count == ValueOrZero(item, countColumn)
        type == IF "intent_type" \in DOMAIN item THEN item["intent_type"] ELSE ""
    IN  IF type = "Lead" THEN [t EXCEPT !.totalLead = count]
        ELSE IF type = "Purchase" THEN [t EXCEPT !.totalBuy = count]
        ELSE t

RECURSIVE ForEachChartIntent(_, _, _)
ForEachChartIntent(t, items, countColumn) ==
    IF items = <<>> THEN t
    ELSE ForEachChartIntent(ChartIntent(t, Head(items), countColumn),
                            Tail(items), countColumn)

\* total > 0 ? ((value / total) * 100).toFixed(1) : '0.0'
SlicePercentage(value, total) ==
    IF total > 0 THEN ToFixed1(Multiply(Divide(value, total), 100))
    ELSE [whole |-> 0, tenth |-> 0]

\* the array handed to setChartData
ComputeChartData(psidData, intentData, countColumn) ==
    LET t == IF intentData.isNull THEN [totalLead |-> 0, totalBuy |-> 0]
             ELSE ForEachChartIntent([totalLead |-> 0, totalBuy |-> 0],
                                     intentData.val, countColumn)
        totalChat == TotalChat(psidData, countColumn)
        total == totalChat + t.totalLead + t.totalBuy
    IN  << [name |-> "Total Chat", value |-> totalChat,
            percentage |-> SlicePercentage(totalChat, total)],
           [name |-> "Total Lead", value |-> t.totalLead,
            percentage |-> SlicePercentage(t.totalLead, total)],
           [name |-> "Total Buy", value |-> t.totalBuy,
            percentage |-> SlicePercentage(t.totalBuy, total)] >>

(***************************************************************************)
(* fetchTrendAnalysisData: the synchronous parts between its awaits.       *)
(***************************************************************************)
\* .from('psid_inputs_statistics').select(three counters).single()
QueryChat(d) ==
    LET r == Single(Rows(d, "psid"))
    IN  IF r.isNull THEN Null ELSE Some(SelectColumns(r.val, CountColumns))

\* .from('intent_statistics').select(three counters).eq('intent_type', t).single()
QueryIntentType(d, t) ==
    LET r == Single(FilterRows(Rows(d, "intent"), "intent_type", {t}))
    IN  IF r.isNull THEN Null ELSE Some(SelectColumns(r.val, CountColumns))

TrendEntry(name, col, chatData, leadData, buyData) ==
    [name |-> name,
     totalChat |-> ValueOrZero(chatData.val, col),
     totalLead |-> ValueOrZero(leadData.val, col),
     totalBuy |-> ValueOrZero(buyData.val, col)]

\* the array handed to setTrendData
ComputeTrendData(chatData, leadData, buyData) ==
    << TrendEntry("Today", "today_count", chatData, leadData, buyData),
       TrendEntry("7 Days (Exclude Today)", "weekly_count", chatData, leadData,
                  buyData),
       TrendEntry("30 Days (Exclude Today)", "monthly_count", chatData,
                  leadData, buyData) >>

(***************************************************************************)
(* Sequences of fetches in flight.                                         *)
(***************************************************************************)
RemoveAt(s, i) == SubSeq(s, 1, i - 1) \o SubSeq(s, i + 1, Len(s))

ReplaceAt(s, i, e) == [s EXCEPT ![i] = e]

\* how a query ends: with data, with { data: null, error }, or by throwing
Outcomes == {"data", "error", "throw"}

Answer(outcome, data) == IF outcome = "data" THEN data ELSE Null

\* a fetchMetrics call up to its first await
NewMetricsFetch(tf) ==
    [tf |-> tf, countColumn |-> CountColumn(tf), pc |-> "psid",
     psidData |-> Null, intentData |-> Null, purchaseData |-> Null,
     seenPsid |-> "", seenIntent |-> "", seenPurchase |-> ""]

\* a fetchHistoricalData call up to its first await
NewHistoricalFetch(tf) ==
    [tf |-> tf, countColumn |-> CountColumn(tf), pc |-> "psid",
     psidData |-> Null, seenPsid |-> ""]

\* a fetchTrendAnalysisData call up to its first await
NewTrendFetch == [pc |-> "chat", chatData |-> Null, leadData |-> Null]

\* history of the fetchMetrics call that finished last: how it ended, the
\* time frame it was started under and the table contents its queries read
\* (status "ok": every query answered with data; "error": setMetrics ran but
\* a query reported an error; "throw": a query threw), and whether any call
\* so far ended otherwise than "ok"
NoFetch ==
    [status |-> "none", tf |-> "today", seenPsid |-> "", seenIntent |-> "",
     seenPurchase |-> "", everFailed |-> FALSE]

Status(f) ==
    IF f.psidData.isNull \/ f.intentData.isNull \/ f.purchaseData.isNull
    THEN "error" ELSE "ok"

Finished(f, before) ==
    [status |-> Status(f), tf |-> f.tf, seenPsid |-> f.seenPsid,
     seenIntent |-> f.seenIntent, seenPurchase |-> f.seenPurchase,
     everFailed |-> before.everFailed \/ Status(f) # "ok"]

Thrown == [NoFetch EXCEPT !.status = "throw", !.everFailed = TRUE]

\* the same history of the fetchHistoricalData call that finished last, with
\* the intent rows its second query read
ChartFinished(f, intentData, seenIntent, before) ==
    LET status == IF f.psidData.isNull \/ intentData.isNull
                  THEN "error" ELSE "ok"
    IN  [status |-> status, tf |-> f.tf, seenPsid |-> f.seenPsid,
         seenIntent |-> seenIntent, seenPurchase |-> "",
         everFailed |-> before.everFailed \/ status # "ok"]

(***************************************************************************)
(* The initial state: the component after its first render, before its     *)
(* effects have run.                                                       *)
(***************************************************************************)
InitDashboard ==
    /\ mounted = FALSE
    /\ timeFrame = "today"
    /\ metrics = ZeroMetrics
    /\ loading = TRUE
    /\ metricsFetches = <<>>
    /\ notifications = 0
    /\ trendFetches = <<>>
    /\ trendData = <<>>
    /\ historicalFetches = <<>>
    /\ chartData = <<>>
    /\ chartLoading = TRUE
    /\ last = NoFetch
    /\ lastChart = NoFetch

Init ==
    /\ InitDashboard
    /\ db \in Datastores
    /\ numerator = 0
    /\ denominator = 0
    /\ percentage = <<>>

(***************************************************************************)
(* useEffect(..., [timeFrame]): the three fetches run up to their first    *)
(* await and the channel is subscribed.  The cleanup of the effect before  *)
(* it unsubscribes the old channel, whose events are no longer handled.    *)
(***************************************************************************)
Room ==
    /\ Len(metricsFetches) < MaxInFlight
    /\ Len(historicalFetches) < MaxInFlight
    /\ Len(trendFetches) + notifications < MaxTrends

RunEffect(tf) ==
    /\ loading' = TRUE
    /\ metricsFetches' = Append(metricsFetches, NewMetricsFetch(tf))
    /\ chartLoading' = TRUE
    /\ historicalFetches' = Append(historicalFetches, NewHistoricalFetch(tf))
    /\ trendFetches' = Append(trendFetches, NewTrendFetch)
    /\ notifications' = 0
    /\ UNCHANGED <<metrics, chartData, trendData, db, last, lastChart, numerator,
                   denominator, percentage>>

Mount ==
    /\ ~mounted
    /\ Room
    /\ mounted' = TRUE
    /\ UNCHANGED timeFrame
    /\ RunEffect(timeFrame)

\* onClick={() => setTimeFrame(tf)}: a re-render and the effect, when tf differs
SelectTimeFrame(tf) ==
    /\ mounted
    /\ tf # timeFrame
    /\ Room
    /\ timeFrame' = tf
    /\ UNCHANGED mounted
    /\ RunEffect(tf)

(***************************************************************************)
(* The external system changes a table; the datastore notifies the         *)
(* subscribed channel of changes of psid_inputs_statistics and             *)
(* intent_statistics.                                                      *)
(***************************************************************************)
Watched == {"psid", "intent"}

ChangeDatastore(table, rows) ==
    /\ rows \in TablesOf(table)
    /\ rows # db[table]
    /\ db' = [db EXCEPT ![table] = rows]
    /\ IF mounted /\ table \in Watched
       THEN /\ notifications + Len(trendFetches) < MaxTrends
            /\ notifications' = notifications + 1
       ELSE UNCHANGED notifications
    /\ UNCHANGED <<mounted, timeFrame, metrics, loading, metricsFetches,
                   trendFetches, trendData, historicalFetches, chartData,
                   chartLoading, last, lastChart, numerator, denominator, percentage>>

\* .on('postgres_changes', {... table ...}, () => fetchTrendAnalysisData())
HandleNotification ==
    /\ notifications > 0
    /\ notifications' = notifications - 1
    /\ trendFetches' = Append(trendFetches, NewTrendFetch)
    /\ UNCHANGED <<mounted, timeFrame, metrics, loading, metricsFetches, db,
                   trendData, historicalFetches, chartData, chartLoading,
                   last, lastChart, numerator, denominator, percentage>>

(***************************************************************************)
(* fetchMetrics: one action for each await that returns.                   *)
(***************************************************************************)
\* catch (error) { console.error(...) } finally { setLoading(false) }
MetricsCatch(i) ==
    /\ loading' = FALSE
    /\ metricsFetches' = RemoveAt(metricsFetches, i)
    /\ last' = Thrown
    /\ UNCHANGED metrics

MetricsPsidAnswer(i, outcome) ==
    /\ i \in DOMAIN metricsFetches
    /\ metricsFetches[i].pc = "psid"
    /\ LET f == metricsFetches[i]
       IN  IF outcome = "throw" THEN MetricsCatch(i)
           ELSE /\ metricsFetches' = ReplaceAt(metricsFetches, i,
                      [f EXCEPT !.pc = "intent",
                                !.psidData =
                                    Answer(outcome, QueryPsid(db, f.countColumn)),
                                !.seenPsid =
                                    IF outcome = "data" THEN db.psid ELSE ""])
                /\ UNCHANGED <<loading, metrics, last>>
    /\ UNCHANGED <<mounted, timeFrame, db, notifications, trendFetches,
                   trendData, historicalFetches, chartData, chartLoading,
                   lastChart, numerator, denominator, percentage>>

MetricsIntentAnswer(i, outcome) ==
    /\ i \in DOMAIN metricsFetches
    /\ metricsFetches[i].pc = "intent"
    /\ LET f == metricsFetches[i]
       IN  IF outcome = "throw" THEN MetricsCatch(i)
           ELSE /\ metricsFetches' = ReplaceAt(metricsFetches, i,
                      [f EXCEPT !.pc = "purchase",
                                !.intentData =
                                    Answer(outcome, QueryIntent(db, f.countColumn)),
                                !.seenIntent =
                                    IF outcome = "data" THEN db.intent ELSE ""])
                /\ UNCHANGED <<loading, metrics, last>>
    /\ UNCHANGED <<mounted, timeFrame, db, notifications, trendFetches,
                   trendData, historicalFetches, chartData, chartLoading,
                   lastChart, numerator, denominator, percentage>>

\* the last await returns: the totals, setMetrics and finally setLoading(false)
MetricsPurchaseAnswer(i, outcome) ==
    /\ i \in DOMAIN metricsFetches
    /\ metricsFetches[i].pc = "purchase"
    /\ LET f == metricsFetches[i]
           g == [f EXCEPT !.purchaseData = Answer(outcome, QueryPurchase(db)),
                          !.seenPurchase =
                              IF outcome = "data" THEN db.purchase ELSE ""]
       IN  IF outcome = "throw" THEN MetricsCatch(i)
           ELSE /\ metrics' = ComputeMetrics(g.psidData, g.intentData,
                                             g.purchaseData, g.countColumn)
                /\ loading' = FALSE
                /\ metricsFetches' = RemoveAt(metricsFetches, i)
                /\ last' = Finished(g, last)
    /\ UNCHANGED <<mounted, timeFrame, db, notifications, trendFetches,
                   trendData, historicalFetches, chartData, chartLoading,
                   lastChart, numerator, denominator, percentage>>

(***************************************************************************)
(* fetchHistoricalData: one action for each await that returns.            *)
(***************************************************************************)
HistoricalCatch(i) ==
    /\ chartLoading' = FALSE
    /\ historicalFetches' = RemoveAt(historicalFetches, i)
    /\ lastChart' = Thrown
    /\ UNCHANGED chartData

HistoricalPsidAnswer(i, outcome) ==
    /\ i \in DOMAIN historicalFetches
    /\ historicalFetches[i].pc = "psid"
    /\ LET f == historicalFetches[i]
       IN  IF outcome = "throw" THEN HistoricalCatch(i)
           ELSE /\ historicalFetches' = ReplaceAt(historicalFetches, i,
                      [f EXCEPT !.pc = "intent",
                                !.psidData =
                                    Answer(outcome, QueryPsid(db, f.countColumn)),
                                !.seenPsid =
                                    IF outcome = "data" THEN db.psid ELSE ""])
                /\ UNCHANGED <<chartLoading, chartData, lastChart>>
    /\ UNCHANGED <<mounted, timeFrame, metrics, loading, metricsFetches, db,
                   notifications, trendFetches, trendData, last, numerator,
                   denominator, percentage>>

\* the last await returns: the slices, setChartData and finally
\* setChartLoading(false)
HistoricalIntentAnswer(i, outcome) ==
    /\ i \in DOMAIN historicalFetches
    /\ historicalFetches[i].pc = "intent"
    /\ LET f == historicalFetches[i]
           intentData == Answer(outcome, QueryLeadPurchase(db, f.countColumn))
           seenIntent == IF outcome = "data" THEN db.intent ELSE ""
       IN  IF outcome = "throw" THEN HistoricalCatch(i)
           ELSE /\ chartData' = ComputeChartData(f.psidData, intentData,
                                                 f.countColumn)
                /\ chartLoading' = FALSE
                /\ historicalFetches' = RemoveAt(historicalFetches, i)
                /\ lastChart' = ChartFinished(f, intentData, seenIntent,
                                              lastChart)
    /\ UNCHANGED <<mounted, timeFrame, metrics, loading, metricsFetches, db,
                   notifications, trendFetches, trendData, last, numerator,
                   denominator, percentage>>

(***************************************************************************)
(* fetchTrendAnalysisData: one action for each await that returns.  A      *)
(* query that reports an error is thrown and caught: trendData is kept.    *)
(***************************************************************************)
TrendChatAnswer(i, outcome) ==
    /\ i \in DOMAIN trendFetches
    /\ trendFetches[i].pc = "chat"
    /\ LET f == trendFetches[i]
           chatData == Answer(outcome, QueryChat(db))
       IN  trendFetches' =
               IF chatData.isNull THEN RemoveAt(trendFetches, i)
               ELSE ReplaceAt(trendFetches, i,
                        [f EXCEPT !.pc = "lead", !.chatData = chatData])
    /\ UNCHANGED <<mounted, timeFrame, metrics, loading, metricsFetches, db,
                   notifications, trendData, historicalFetches, chartData,
                   chartLoading, last, lastChart, numerator, denominator, percentage>>

TrendLeadAnswer(i, outcome) ==
    /\ i \in DOMAIN trendFetches
    /\ trendFetches[i].pc = "lead"
    /\ LET f == trendFetches[i]
           leadData == Answer(outcome, QueryIntentType(db, "Lead"))
       IN  trendFetches' =
               IF leadData.isNull THEN RemoveAt(trendFetches, i)
               ELSE ReplaceAt(trendFetches, i,
                        [f EXCEPT !.pc = "buy", !.leadData = leadData])
    /\ UNCHANGED <<mounted, timeFrame, metrics, loading, metricsFetches, db,
                   notifications, trendData, historicalFetches, chartData,
                   chartLoading, last, lastChart, numerator, denominator, percentage>>

TrendBuyAnswer(i, outcome) ==
    /\ i \in DOMAIN trendFetches
    /\ trendFetches[i].pc = "buy"
    /\ LET f == trendFetches[i]
           buyData == Answer(outcome, QueryIntentType(db, "Purchase"))
       IN  /\ trendFetches' = RemoveAt(trendFetches, i)
           /\ trendData' =
                  IF buyData.isNull THEN trendData
                  ELSE ComputeTrendData(f.chatData, f.leadData, buyData)
    /\ UNCHANGED <<mounted, timeFrame, metrics, loading, metricsFetches, db,
                   notifications, historicalFetches, chartData, chartLoading,
                   last, lastChart, numerator, denominator, percentage>>

(***************************************************************************)
(* The specifications.  The three kinds of fetch share no state: no action *)
(* of one reads what another writes.  Each specification schedules the     *)
(* answers of one kind of fetch and leaves the calls of the other kinds,   *)
(* which every run of the effect still starts, unanswered.                 *)
(***************************************************************************)
Slots == 1..MaxInFlight

TrendSlots == 1..MaxTrends

Environment ==
    \/ Mount
    \/ \E tf \in TimeFrames : SelectTimeFrame(tf)
    \/ \E table \in Tables :
           \E rows \in TablesOf(table) : ChangeDatastore(table, rows)
    \/ HandleNotification

NextMetrics ==
    \/ \E i \in Slots, o \in Outcomes : MetricsPsidAnswer(i, o)
    \/ \E i \in Slots, o \in Outcomes : MetricsIntentAnswer(i, o)
    \/ \E i \in Slots, o \in Outcomes : MetricsPurchaseAnswer(i, o)

NextHistorical ==
    \/ \E i \in Slots, o \in Outcomes : HistoricalPsidAnswer(i, o)
    \/ \E i \in Slots, o \in Outcomes : HistoricalIntentAnswer(i, o)

NextTrend ==
    \/ \E i \in TrendSlots, o \in Outcomes : TrendChatAnswer(i, o)
    \/ \E i \in TrendSlots, o \in Outcomes : TrendLeadAnswer(i, o)
    \/ \E i \in TrendSlots, o \in Outcomes : TrendBuyAnswer(i, o)

Next == Environment \/ NextMetrics

Spec == Init /\ [][Next]_vars

SpecHistorical == Init /\ [][Environment \/ NextHistorical]_vars

SpecTrend == Init /\ [][Environment \/ NextTrend]_vars

\* the metric cards and the pie chart together, over a datastore that holds
\* the same contents throughout; the purchase table, which
\* fetchHistoricalData does not read, holds one of its contents
InitChart ==
    /\ InitDashboard
    /\ db \in {d \in Datastores : d.purchase = "a"}
    /\ numerator = 0
    /\ denominator = 0
    /\ percentage = <<>>

NextChart ==
    \/ Mount
    \/ \E tf \in TimeFrames : SelectTimeFrame(tf)
    \/ NextMetrics
    \/ NextHistorical

SpecChart == InitChart /\ [][NextChart]_vars

(***************************************************************************)
(* calculatePercentage on its own: the arguments are drawn from            *)
(* 0..MaxArg and the function is applied once.                             *)
(***************************************************************************)
InitPercentage ==
    /\ InitDashboard
    /\ db = [psid |-> "a", intent |-> "a", purchase |-> "a"]
    /\ numerator \in 0..MaxArg
    /\ denominator \in 0..MaxArg
    /\ percentage = <<>>

Calculate ==
    /\ percentage = <<>>
    /\ percentage' = <<calculatePercentage(numerator, denominator)>>
    /\ UNCHANGED <<mounted, timeFrame, metrics, loading, metricsFetches, db,
                   notifications, trendFetches, trendData, historicalFetches,
                   chartData, chartLoading, last, lastChart, numerator, denominator>>

SpecPercentage == InitPercentage /\ [][Calculate]_vars

(***************************************************************************)
(* The conversion cards of the render (Row 2).                             *)
(***************************************************************************)
ChatToLead == calculatePercentage(metrics.totalLead, metrics.totalChat)

LeadToBuy == calculatePercentage(metrics.totalBuy, metrics.totalLead)

ChatToBuy == calculatePercentage(metrics.totalBuy, metrics.totalChat)

(***************************************************************************)
(* What the claims speak of, stated without the operators of the model of  *)
(* fetchMetrics.                                                           *)
(***************************************************************************)
\* the counter column of a time frame
ColumnFor(tf) ==
    CASE tf = "today" -> "today_count"
      [] tf = "7days" -> "weekly_count"
      [] tf = "30days" -> "monthly_count"

\* the sum of column col (NULL counting as 0) over the rows whose column key
\* holds label
RECURSIVE SumWhere(_, _, _, _)
SumWhere(rows, key, label, col) ==
    IF rows = <<>> THEN 0
    ELSE LET row == rows[Len(rows)]
             this == IF key \in DOMAIN row /\ row[key] = label
                        /\ col \in DOMAIN row
                     THEN row[col] ELSE 0
         IN  this + SumWhere(SubSeq(rows, 1, Len(rows) - 1), key, label, col)

\* the rows a query of the fetch that finished last read ("": it read none)
Seen(table, entry) == IF entry = "" THEN <<>> ELSE Catalogue[table][entry]

SeenIntentSum(label, col) ==
    SumWhere(Seen("intent", last.seenIntent), "intent_type", label, col)

SeenChat(col) ==
    SumWhere(Seen("psid", last.seenPsid), "metric_type", "PSID Inputs", col)

\* the sum of value over all rows, a missing value counting as 0
RECURSIVE SumValue(_)
SumValue(rows) ==
    IF rows = <<>> THEN 0
    ELSE (IF "value" \in DOMAIN Head(rows) THEN Head(rows)["value"] ELSE 0)
         + SumValue(Tail(rows))

\* the displayed total of each intent label, as the glossary names the labels
LabelsOfSpec ==
    { <<"Lead", "totalLead">>, <<"Purchase", "totalBuy">>,
      <<"ViewContent", "totalViewContent">>, <<"AddToCart", "totalAddToCart">>,
      <<"InitiateCheckout", "totalInitiateCheckout">>,
      <<"Spam", "totalSpam">>, <<"Blocking", "totalBlocking">>,
      <<"Ban", "totalBan">> }

\* the displayed total of each intent label, as the datastore names the labels
LabelsOfDatastore ==
    { <<"Lead", "totalLead">>, <<"Purchase", "totalBuy">>,
      <<"VC", "totalViewContent">>, <<"ATC", "totalAddToCart">>,
      <<"IC", "totalInitiateCheckout">>, <<"Move to Spam", "totalSpam">>,
      <<"Blocking", "totalBlocking">>, <<"Ban", "totalBan">> }

(***************************************************************************)
(* C1: in every reachable state, totalGoodCustomer = totalAddToCart +      *)
(* totalInitiateCheckout + totalLead + totalBuy + totalViewContent.        *)
(***************************************************************************)
C1_GoodCustomerIsSum ==
    metrics.totalGoodCustomer =
        metrics.totalAddToCart + metrics.totalInitiateCheckout
            + metrics.totalLead + metrics.totalBuy + metrics.totalViewContent

\* a fetch has written metrics in which every term of the sum is positive
C1_Witness ==
    /\ last.status = "ok"
    /\ metrics.totalAddToCart > 0 /\ metrics.totalInitiateCheckout > 0
    /\ metrics.totalLead > 0 /\ metrics.totalBuy > 0
    /\ metrics.totalViewContent > 0

(***************************************************************************)
(* C2: in every reachable state, totalBadCustomer = totalBan +             *)
(* totalBlocking + totalSpam.                                              *)
(***************************************************************************)
C2_BadCustomerIsSum ==
    metrics.totalBadCustomer =
        metrics.totalBan + metrics.totalBlocking + metrics.totalSpam

\* a fetch has written metrics in which every term of the sum is positive
C2_Witness ==
    /\ last.status = "ok"
    /\ metrics.totalBan > 0 /\ metrics.totalBlocking > 0
    /\ metrics.totalSpam > 0

(***************************************************************************)
(* C3, as claimed: after a fetch in which every query answered with data,  *)
(* the total of each of the labels Lead, Purchase, ViewContent, AddToCart, *)
(* InitiateCheckout, Spam, Blocking, Ban is the sum of the time frame's    *)
(* counter over the intent rows with that label.                           *)
(***************************************************************************)
C3_Original ==
    last.status = "ok" =>
        \A p \in LabelsOfSpec :
            metrics[p[2]] = SeenIntentSum(p[1], ColumnFor(last.tf))

(***************************************************************************)
(* C3, amended: after a fetch in which every query answered with data,     *)
(* the totals totalLead, totalBuy, totalViewContent, totalAddToCart,       *)
(* totalInitiateCheckout, totalSpam, totalBlocking, totalBan are the sums, *)
(* over the intent rows that the fetch read with intent_type Lead,         *)
(* Purchase, VC, ATC, IC, Move to Spam, Blocking, Ban respectively, of the *)
(* counter of the time frame the fetch was started under.                  *)
(***************************************************************************)
C3_TotalsByDatastoreLabel ==
    last.status = "ok" =>
        \A p \in LabelsOfDatastore :
            metrics[p[2]] = SeenIntentSum(p[1], ColumnFor(last.tf))

\* a fetch finished with data whose intent rows held two rows labelled Lead
\* and two labelled Purchase
C3_Witness ==
    /\ last.status = "ok"
    /\ last.seenIntent = "a"
    /\ last.tf = "7days"
    /\ metrics.totalLead = 5
    /\ metrics.totalBuy = 2
    /\ metrics.totalViewContent = 5

(***************************************************************************)
(* C4, as claimed: once a fetch in which a query reported an error or      *)
(* threw has finished, every field of metrics is 0.                        *)
(***************************************************************************)
C4_Original ==
    last.status \in {"error", "throw"} => metrics = ZeroMetrics

(***************************************************************************)
(* C5, as claimed: the step that handles a change notification starts a    *)
(* fetchMetrics call and a fetchHistoricalData call.                       *)
(***************************************************************************)
C5_Original ==
    [][notifications' < notifications =>
           /\ Len(metricsFetches') > Len(metricsFetches)
           /\ Len(historicalFetches') > Len(historicalFetches)]_vars

(***************************************************************************)
(* C6, as claimed: calculatePercentage(a, b) is 0 when b = 0 and otherwise *)
(* 100 * a / b rounded to the nearest integer, a half rounded up:          *)
(* floor((200 * a + b) / (2 * b)).                                         *)
(***************************************************************************)
C6_Original ==
    percentage # <<>> =>
        percentage[1] =
            IF denominator = 0 THEN 0
            ELSE (200 * numerator + denominator) \div (2 * denominator)

(***************************************************************************)
(* C7: every snapshot written by fetchMetrics is computed from the one     *)
(* counter column of the time frame the fetch was started under: totalChat *)
(* and the eight intent totals are that column's values in the rows the    *)
(* fetch read (0 where a query reported an error), whatever time frame is  *)
(* selected when the fetch finishes.                                       *)
(***************************************************************************)
C7_OneCounterColumn ==
    last.status \in {"ok", "error"} =>
        LET col == ColumnFor(last.tf)
        IN  /\ metrics.totalChat = SeenChat(col)
            /\ \A p \in LabelsOfDatastore :
                   metrics[p[2]] = SeenIntentSum(p[1], col)

\* a fetch started under 'today' finished, with data, after another time
\* frame was selected
C7_Witness ==
    /\ last.status = "ok"
    /\ last.tf = "today"
    /\ timeFrame = "30days"
    /\ last.seenPsid = "a"
    /\ last.seenIntent = "a"
    /\ metrics.totalChat = 5
    /\ metrics.totalBan = 1

(***************************************************************************)
(* C8: after a fetch in which every query answered with data,              *)
(* totalBuyValue is the sum of value over all purchase records, a missing  *)
(* value counting as 0, whatever the time frame.                           *)
(***************************************************************************)
C8_BuyValueIsSumOfAllPurchases ==
    last.status = "ok" =>
        metrics.totalBuyValue = SumValue(Seen("purchase", last.seenPurchase))

\* a fetch started under '30 days' summed three purchase records, one of
\* them without a value
C8_Witness ==
    /\ last.status = "ok"
    /\ last.tf = "30days"
    /\ last.seenPurchase = "a"
    /\ metrics.totalBuyValue = 350

(***************************************************************************)
(* C9, as claimed: once no fetchMetrics call is in flight, and none has    *)
(* failed, the metrics displayed were computed for the selected time       *)
(* frame.                                                                  *)
(***************************************************************************)
C9_Original ==
    (metricsFetches = <<>> /\ last.status = "ok" /\ ~last.everFailed)
        => last.tf = timeFrame

(***************************************************************************)
(* C10, as claimed: loading is true in every state in which a fetchMetrics *)
(* call is in flight.                                                      *)
(***************************************************************************)
C10_Original == metricsFetches # <<>> => loading

(***************************************************************************)
(* C11, as claimed: when the fetchMetrics call and the fetchHistoricalData  *)
(* call that finished last both answered with data, were started under the *)
(* same time frame and read the same psid and intent rows, the slices      *)
(* Total Chat, Total Lead and Total Buy of the pie chart have the values   *)
(* of metrics.totalChat, metrics.totalLead and metrics.totalBuy.           *)
(***************************************************************************)
C11_Original ==
    (/\ last.status = "ok"
     /\ lastChart.status = "ok"
     /\ lastChart.tf = last.tf
     /\ lastChart.seenPsid = last.seenPsid
     /\ lastChart.seenIntent = last.seenIntent)
        => /\ chartData[1].value = metrics.totalChat
           /\ chartData[2].value = metrics.totalLead
           /\ chartData[3].value = metrics.totalBuy

====
